---- MODULE Spec2Model ----
(***************************************************************************)
(* A model of the food-order backend: the restaurant service (cache-aside  *)
(* GET /restaurants over Redis and Postgres), the API gateway (express     *)
(* middleware chain), the order service with its BullMQ queue and the      *)
(* notification worker, and the auth service's login.                      *)
(*                                                                         *)
(* Every "await" of a handler is a point where other requests may run, so  *)
(* a handler is one action per awaited call (the synchronous code that     *)
(* follows an await belongs to the action of that await).                  *)
(***************************************************************************)
EXTENDS Integers, Sequences, FiniteSets, TLC

VARIABLES
    now,        \* wall clock, in seconds
    table,      \* Postgres: the restaurants table
    cache,      \* Redis: the key "restaurants"
    nextId,     \* the uuid() stream of the restaurant service
    responded,  \* ids of the restaurants whose POST has responded
    post,       \* the POST /restaurants request of each posting client
    get,        \* the GET /restaurants request of each reading client
    routes,     \* gateway: the mounted proxies, in registration order
    gw,         \* gateway: the request being handled
    px,         \* gateway: the request of each concurrent client in a proxy
    fails,      \* per upstream: the forwards that failed in a row, capped
    since,      \* per upstream: seconds since the latest of them, capped
    orders,     \* Postgres: the orders table
    orderNextId,\* the uuid() stream of the order service
    ord,        \* the POST /orders request of each ordering client
    queue,      \* BullMQ: the jobs waiting in the order-events queue
    active,     \* BullMQ: the job the worker is processing, if any
    processed,  \* the jobs the worker's processor has run on, in order
    workerUp,   \* whether the notification worker has been started
    boot,       \* auth: the start-up (initDB, then listen)
    usersTable, \* Postgres: whether the users table exists
    users,      \* Postgres: the rows of the users table
    authNextId, \* the uuid() stream of the auth service
    reg,        \* the POST /auth/register request being handled
    login       \* the POST /auth/login request being handled

restVars == <<now, table, cache, nextId, responded, post, get>>
gwVars == <<routes, gw>>
pxVars == <<px, fails, since>>
orderVars == <<orders, orderNextId, ord, queue, active, processed, workerUp>>

authVars == <<boot, usersTable, users, authNextId, reg, login>>

vars == <<restVars, gwVars, pxVars, orderVars, authVars>>

----------------------------------------------------------------------------
(* Bounds and program constants                                            *)

MaxTime == 61
NumGetClients == 2
MaxRestaurants == 2

TTL == 60

TickSteps == {30, 31}
GetClients == 1..NumGetClients
PostClients == {"p1"}
Names == {"Dosa"}

\* uuid(): the n-th identifier it returns
Uuid(n) == <<"u1", "u2", "u3", "u4">>[n]

----------------------------------------------------------------------------
(* JSON: a string is a sequence of tokens                                  *)

Row(id, name) == [id |-> id, name |-> name]

RECURSIVE StringifyRows(_)
StringifyRows(rows) ==
    IF rows = <<>> THEN <<>>
    ELSE <<"{", rows[1].id, rows[1].name, "}">> \o StringifyRows(Tail(rows))

JSONstringify(rows) == <<"[">> \o StringifyRows(rows) \o <<"]">>

RECURSIVE ParseObjects(_)
ParseObjects(toks) ==
    IF Len(toks) < 4 THEN <<>>
    ELSE <<Row(toks[2], toks[3])>> \o ParseObjects(SubSeq(toks, 5, Len(toks)))

JSONparse(str) == ParseObjects(SubSeq(str, 2, Len(str) - 1))

----------------------------------------------------------------------------
(* Redis: the key "restaurants"                                            *)

NoEntry == [present |-> FALSE, value |-> <<>>, exp |-> 0]
Nil == [nil |-> TRUE, str |-> <<>>]
Live(entry, t) == entry.present /\ t < entry.exp

\* RedisGet serving an entry at the very second it expires
RedisGetInclusive(entry, t) ==
    IF entry.present /\ t <= entry.exp
    THEN [nil |-> FALSE, str |-> entry.value]
    ELSE [nil |-> TRUE, str |-> <<>>]

\* GET key: the value while the key has not expired, nil otherwise
RedisGet(entry, t) ==
    IF entry.present /\ t < entry.exp
    THEN [nil |-> FALSE, str |-> entry.value]
    ELSE Nil

\* SETEX key seconds value
RedisSetEx(seconds, value, t) ==
    [present |-> TRUE, value |-> value, exp |-> t + seconds]

\* Truthy taking the cached empty list "[]" for a miss
TruthyNonEmptyList(reply) == ~reply.nil /\ Len(reply.str) > 2

\* a JavaScript value used as a condition: null and "" are falsy
Truthy(reply) == ~reply.nil /\ Len(reply.str) > 0

----------------------------------------------------------------------------
(* Postgres: the restaurants table                                         *)

NoTable == [exists |-> FALSE, rows |-> <<>>]

CreateTableIfNotExists(t) == [t EXCEPT !.exists = TRUE]
InsertInto(t, row) == [t EXCEPT !.rows = Append(@, row)]
\* SELECT * FROM restaurants raises an error while the relation does not exist
SelectFails(t) == ~t.exists
SelectAll(t) == t.rows

RowIds(rows) == {rows[i].id : i \in 1..Len(rows)}

----------------------------------------------------------------------------
(* Restaurant service                                                      *)

IdleGet ==
    [pc |-> "idle", hit |-> FALSE, stale |-> FALSE, rows |-> <<>>,
     resp |-> <<>>, selects |-> 0, writes |-> 0]
IdlePost == [pc |-> "idle", name |-> ""]

InitRestaurant ==
    /\ now = 0
    /\ table = NoTable
    /\ cache = NoEntry
    /\ nextId = 1
    /\ responded = {}
    /\ post = [p \in PostClients |-> IdlePost]
    /\ get = [g \in GetClients |-> IdleGet]

\* time passes between two events
Tick(d) ==
    /\ now + d <= MaxTime
    /\ now' = now + d
    /\ UNCHANGED <<table, cache, nextId, responded, post, get>>

\* POST /restaurants, up to the first await: CREATE TABLE IF NOT EXISTS
PostCreateTable(p, name, ok) ==
    /\ post[p].pc \in {"idle", "done", "failed"}
    /\ nextId <= MaxRestaurants
    /\ IF ok
       THEN /\ table' = CreateTableIfNotExists(table)
            /\ post' = [post EXCEPT ![p] = [pc |-> "created", name |-> name]]
       ELSE /\ table' = table
            /\ post' = [post EXCEPT ![p] = [pc |-> "failed", name |-> name]]
    /\ UNCHANGED <<now, cache, nextId, responded, get>>

\* PostInsert responding although the INSERT was rejected
PostInsertRespondsAnyway(p, ok) ==
    /\ post[p].pc = "created"
    /\ table' = IF ok THEN InsertInto(table, Row(Uuid(nextId), post[p].name))
                ELSE table
    /\ nextId' = nextId + 1
    /\ responded' = responded \cup {Uuid(nextId)}
    /\ post' = [post EXCEPT ![p].pc = "done"]
    /\ UNCHANGED <<now, cache, get>>

\* POST /restaurants: id = uuid(), INSERT, res.json({id})
PostInsert(p, ok) ==
    /\ post[p].pc = "created"
    /\ IF ok
       THEN /\ table' = InsertInto(table, Row(Uuid(nextId), post[p].name))
            /\ nextId' = nextId + 1
            /\ responded' = responded \cup {Uuid(nextId)}
            /\ post' = [post EXCEPT ![p].pc = "done"]
       ELSE /\ UNCHANGED <<table, nextId, responded>>
            /\ post' = [post EXCEPT ![p].pc = "failed"]
    /\ UNCHANGED <<now, cache, get>>

\* GET /restaurants: client.get("restaurants"); a hit responds at once
GetRead(g) ==
    /\ get[g].pc \in {"idle", "done", "failed"}
    /\ LET reply == RedisGet(cache, now)
       IN  IF Truthy(reply)
           THEN get' = [get EXCEPT ![g] =
                          [IdleGet EXCEPT !.pc = "done", !.hit = TRUE,
                                          !.resp = JSONparse(reply.str)]]
           ELSE get' = [get EXCEPT ![g] =
                          [IdleGet EXCEPT !.pc = "miss", !.stale = cache.present]]
    /\ UNCHANGED <<now, table, cache, nextId, responded, post>>

\* GetSelect joining a load another request has in flight instead of querying
GetSelectJoin(g, ok) ==
    /\ get[g].pc = "miss"
    /\ IF \E h \in GetClients : get[h].pc = "loaded"
       THEN LET h == CHOOSE h \in GetClients : get[h].pc = "loaded"
            IN  get' = [get EXCEPT ![g].pc = "loaded", ![g].rows = get[h].rows]
       ELSE IF ok /\ ~SelectFails(table)
       THEN get' = [get EXCEPT ![g].pc = "loaded", ![g].rows = SelectAll(table),
                               ![g].selects = @ + 1]
       ELSE get' = [get EXCEPT ![g].pc = "failed", ![g].selects = @ + 1]
    /\ UNCHANGED <<now, table, cache, nextId, responded, post>>

\* GET /restaurants: SELECT * FROM restaurants; a rejected query leaves the
\* handler's promise rejected and the request without a response
GetSelect(g, ok) ==
    /\ get[g].pc = "miss"
    /\ IF ok /\ ~SelectFails(table)
       THEN get' = [get EXCEPT ![g].pc = "loaded", ![g].rows = SelectAll(table),
                               ![g].selects = @ + 1]
       ELSE get' = [get EXCEPT ![g].pc = "failed", ![g].selects = @ + 1]
    /\ UNCHANGED <<now, table, cache, nextId, responded, post>>

\* GetSetEx caching the empty list for a request whose query was rejected
GetSetExAfterFailure(g) ==
    /\ get[g].pc \in {"loaded", "failed"}
    /\ cache' = RedisSetEx(TTL, JSONstringify(get[g].rows), now)
    /\ get' = [get EXCEPT ![g].pc = "done", ![g].resp = get[g].rows,
                          ![g].writes = @ + 1]
    /\ UNCHANGED <<now, table, nextId, responded, post>>

\* GetSetEx caching the table as it is now, not the rows it answers with
GetSetExCachesTable(g) ==
    /\ get[g].pc = "loaded"
    /\ cache' = RedisSetEx(TTL, JSONstringify(SelectAll(table)), now)
    /\ get' = [get EXCEPT ![g].pc = "done", ![g].resp = get[g].rows,
                          ![g].writes = @ + 1]
    /\ UNCHANGED <<now, table, nextId, responded, post>>

\* GET /restaurants: client.setEx("restaurants", 60, ...), res.json(rows)
GetSetEx(g) ==
    /\ get[g].pc = "loaded"
    /\ cache' = RedisSetEx(TTL, JSONstringify(get[g].rows), now)
    /\ get' = [get EXCEPT ![g].pc = "done", ![g].resp = get[g].rows,
                          ![g].writes = @ + 1]
    /\ UNCHANGED <<now, table, nextId, responded, post>>

RestaurantOnly == UNCHANGED <<gwVars, pxVars, orderVars, authVars>>

NextRestaurant ==
    \/ \E d \in TickSteps : Tick(d) /\ RestaurantOnly
    \/ \E p \in PostClients, n \in Names, ok \in BOOLEAN :
          PostCreateTable(p, n, ok) /\ RestaurantOnly
    \/ \E p \in PostClients, ok \in BOOLEAN : PostInsert(p, ok) /\ RestaurantOnly
    \/ \E g \in GetClients : GetRead(g) /\ RestaurantOnly
    \/ \E g \in GetClients, ok \in BOOLEAN : GetSelect(g, ok) /\ RestaurantOnly
    \/ \E g \in GetClients : GetSetEx(g) /\ RestaurantOnly

----------------------------------------------------------------------------
(* API gateway: express.json(), four mounted proxies, the final 404        *)

MaxPathLen == 2

\* a request path is its sequence of segments: /auth/register is
\* <<"auth", "register">>, / is <<>>
Segments == {"auth", "AUTH", "authx", "restaurants", "orders", "payments", "register"}
Paths == UNION {[1..n -> Segments] : n \in 0..MaxPathLen}

\* the request body as express.json() sees it
Bodies == {"none", "json", "malformed", "oversize"}

\* the app.use(path, createProxyMiddleware({target})) calls, in order
RouteTableSwapped ==
    << [prefix |-> <<"auth">>, target |-> "auth-service:4001"],
       [prefix |-> <<"restaurants">>, target |-> "restaurant-service:4002"],
       [prefix |-> <<"orders">>, target |-> "payment-service:4004"],
       [prefix |-> <<"payments">>, target |-> "order-service:4003"] >>

RouteTable ==
    << [prefix |-> <<"auth">>, target |-> "auth-service:4001"],
       [prefix |-> <<"restaurants">>, target |-> "restaurant-service:4002"],
       [prefix |-> <<"orders">>, target |-> "order-service:4003"],
       [prefix |-> <<"payments">>, target |-> "payment-service:4004"] >>

\* express matches paths without regard to case
Lower(seg) == IF seg = "AUTH" THEN "auth" ELSE seg

\* an app.use mount path matches the paths it is a prefix of, at a segment
\* boundary
MountMatches(prefix, path) ==
    /\ Len(path) >= Len(prefix)
    /\ \A i \in 1..Len(prefix) : Lower(path[i]) = prefix[i]

Matching(rt, path) == {i \in 1..Len(rt) : MountMatches(rt[i].prefix, path)}

\* FirstMatch falling back to the first proxy when no mount matches
FirstMatchOrDefault(rt, path) ==
    IF Matching(rt, path) = {} THEN 1
    ELSE CHOOSE i \in Matching(rt, path) : \A j \in Matching(rt, path) : i <= j

\* the router runs the layers in registration order: the first proxy whose
\* mount path matches takes the request (0: none does)
FirstMatch(rt, path) ==
    IF Matching(rt, path) = {} THEN 0
    ELSE CHOOSE i \in Matching(rt, path) : \A j \in Matching(rt, path) : i <= j

\* express.json(): the status it ends the request with, 0 when it calls next()
JsonParserStatus(body) ==
    CASE body = "malformed" -> 400
      [] body = "oversize" -> 413
      [] OTHER -> 0

\* what is left of the request's body stream once express.json() has run: it
\* has read a JSON body to the end into req.body, and the proxy pipes the
\* stream, not req.body
Unsent == "unsent"
StreamAfterParser(body) == IF body = "json" THEN Unsent ELSE body

IdleGw == [stage |-> "idle", path |-> <<>>, body |-> "none", sentTo |-> {},
           upPath |-> <<>>, upBody |-> "none", status |-> 0]

InitGateway ==
    /\ routes = RouteTable
    /\ gw = IdleGw

\* a client sends a request to port 8000
GwReceive(path, body) ==
    /\ gw.stage \in {"idle", "responded"}
    /\ gw' = [IdleGw EXCEPT !.stage = "received", !.path = path, !.body = body]
    /\ UNCHANGED routes

\* app.use(express.json())
GwJsonParser ==
    /\ gw.stage = "received"
    /\ IF JsonParserStatus(gw.body) # 0
       THEN gw' = [gw EXCEPT !.stage = "responded",
                             !.status = JsonParserStatus(gw.body)]
       ELSE gw' = [gw EXCEPT !.stage = "parsed"]
    /\ UNCHANGED routes

\* the mounted proxies (each sends the request line with the original URL,
\* the headers, and what the body stream still yields), then express's final
\* handler
GwRoute ==
    /\ gw.stage = "parsed"
    /\ LET i == FirstMatch(routes, gw.path)
       IN  IF i = 0
           THEN gw' = [gw EXCEPT !.stage = "responded", !.status = 404]
           ELSE gw' = [gw EXCEPT !.stage = "proxied",
                                 !.sentTo = @ \cup {routes[i].target},
                                 !.upPath = gw.path,
                                 !.upBody = StreamAfterParser(gw.body)]
    /\ UNCHANGED routes

\* the upstream answers, or the proxy gives up on it; an upstream that was
\* announced a body and sent none waits for it and does not answer
GwUpstreamReply(ok) ==
    /\ gw.stage = "proxied"
    /\ ok => gw.upBody # Unsent
    /\ gw' = [gw EXCEPT !.stage = "responded",
                        !.status = IF ok THEN 200 ELSE 504]
    /\ UNCHANGED routes

GatewayOnly == UNCHANGED <<restVars, pxVars, orderVars, authVars>>

NextGateway ==
    \/ \E path \in Paths, body \in Bodies : GwReceive(path, body) /\ GatewayOnly
    \/ GwJsonParser /\ GatewayOnly
    \/ GwRoute /\ GatewayOnly
    \/ \E ok \in BOOLEAN : GwUpstreamReply(ok) /\ GatewayOnly

----------------------------------------------------------------------------
(* API gateway: the proxies under concurrent requests. The requests carry  *)
(* no body. fails and since record what the upstreams did to the forwards; *)
(* the gateway itself keeps no such state.                                 *)

MaxFails == 5
MaxSince == 30

ProxyClients == {"a", "b"}
ProxyPaths == {<<"auth", "register">>, <<"orders">>, <<"authx">>}
ProxyTickSteps == {15}
Targets == {RouteTable[i].target : i \in 1..Len(RouteTable)}
NoTarget == "none"

Min(a, b) == IF a < b THEN a ELSE b

\* what the forwards to an upstream have met when a request arrives: fewer
\* than five failures in a row ("few"), five or more with the latest less
\* than 30 s ago ("open"), five or more with the latest 30 s ago or longer
\* ("cooled")
Seen(u) ==
    IF fails[u] < 5 THEN "few"
    ELSE IF since[u] < 30 THEN "open" ELSE "cooled"

IdleProxy == [pc |-> "idle", sentTo |-> NoTarget, seen |-> "few",
              attempts |-> 0, status |-> 0]

InitProxy ==
    /\ px = [c \in ProxyClients |-> IdleProxy]
    /\ fails = [u \in Targets |-> 0]
    /\ since = [u \in Targets |-> 0]

\* time passes
ProxyTick(d) ==
    /\ \E u \in Targets : fails[u] > 0 /\ since[u] < MaxSince
    /\ since' = [u \in Targets |->
                   IF fails[u] > 0 THEN Min(since[u] + d, MaxSince) ELSE 0]
    /\ UNCHANGED <<px, fails>>

\* a proxy that answers 503 without forwarding while its upstream is "open"
ProxyReceiveBreaker(c, path) ==
    /\ px[c].pc \in {"idle", "done"}
    /\ LET i == FirstMatch(routes, path)
       IN  IF i = 0
           THEN px' = [px EXCEPT ![c] = [IdleProxy EXCEPT !.pc = "done",
                                                          !.status = 404]]
           ELSE IF Seen(routes[i].target) = "open"
           THEN px' = [px EXCEPT ![c] = [pc |-> "done",
                                         sentTo |-> routes[i].target,
                                         seen |-> "open",
                                         attempts |-> 0, status |-> 503]]
           ELSE px' = [px EXCEPT ![c] = [pc |-> "forwarding",
                                         sentTo |-> routes[i].target,
                                         seen |-> Seen(routes[i].target),
                                         attempts |-> 1, status |-> 0]]
    /\ UNCHANGED <<fails, since>>

\* a proxy that lets one request at a time through to an upstream that is
\* "cooled" and answers 503 to the others
ProxyReceiveHalfOpen(c, path) ==
    /\ px[c].pc \in {"idle", "done"}
    /\ LET i == FirstMatch(routes, path)
           trial(u) == \E d \in ProxyClients :
                          px[d].pc = "forwarding" /\ px[d].sentTo = u
       IN  IF i = 0
           THEN px' = [px EXCEPT ![c] = [IdleProxy EXCEPT !.pc = "done",
                                                          !.status = 404]]
           ELSE IF Seen(routes[i].target) = "cooled" /\ trial(routes[i].target)
           THEN px' = [px EXCEPT ![c] = [pc |-> "done",
                                         sentTo |-> routes[i].target,
                                         seen |-> "cooled",
                                         attempts |-> 0, status |-> 503]]
           ELSE px' = [px EXCEPT ![c] = [pc |-> "forwarding",
                                         sentTo |-> routes[i].target,
                                         seen |-> Seen(routes[i].target),
                                         attempts |-> 1, status |-> 0]]
    /\ UNCHANGED <<fails, since>>

\* a request reaches the mounted proxies: the first proxy whose mount path
\* matches opens a connection to its target and sends the request, whatever
\* became of the requests before it; with no match express answers 404
ProxyReceive(c, path) ==
    /\ px[c].pc \in {"idle", "done"}
    /\ LET i == FirstMatch(routes, path)
       IN  IF i = 0
           THEN px' = [px EXCEPT ![c] = [IdleProxy EXCEPT !.pc = "done",
                                                          !.status = 404]]
           ELSE px' = [px EXCEPT ![c] = [pc |-> "forwarding",
                                         sentTo |-> routes[i].target,
                                         seen |-> Seen(routes[i].target),
                                         attempts |-> 1, status |-> 0]]
    /\ UNCHANGED <<fails, since>>

\* a proxy that sends the request a second time when the first forward fails
ProxyReplyRetry(c, ok) ==
    /\ px[c].pc = "forwarding"
    /\ IF ~ok /\ px[c].attempts < 2
       THEN px' = [px EXCEPT ![c].attempts = @ + 1]
       ELSE px' = [px EXCEPT ![c].pc = "done",
                             ![c].status = IF ok THEN 200 ELSE 504]
    /\ fails' = [fails EXCEPT ![px[c].sentTo] =
                                  IF ok THEN 0 ELSE Min(@ + 1, MaxFails)]
    /\ since' = [since EXCEPT ![px[c].sentTo] = 0]

\* the upstream's response is relayed, or the connection fails or times out
\* and the proxy's error handler answers 504
ProxyReply(c, ok) ==
    /\ px[c].pc = "forwarding"
    /\ px' = [px EXCEPT ![c].pc = "done",
                        ![c].status = IF ok THEN 200 ELSE 504]
    /\ fails' = [fails EXCEPT ![px[c].sentTo] =
                                  IF ok THEN 0 ELSE Min(@ + 1, MaxFails)]
    /\ since' = [since EXCEPT ![px[c].sentTo] = 0]

ProxyOnly == UNCHANGED <<restVars, gwVars, orderVars, authVars>>

NextProxy ==
    \/ \E d \in ProxyTickSteps : ProxyTick(d) /\ ProxyOnly
    \/ \E c \in ProxyClients, path \in ProxyPaths :
          ProxyReceive(c, path) /\ ProxyOnly
    \/ \E c \in ProxyClients, ok \in BOOLEAN : ProxyReply(c, ok) /\ ProxyOnly

----------------------------------------------------------------------------
(* Order service, the order-events queue and the notification worker       *)

MaxOrders == 2
NumOrderClients == 2

OrderClients == 1..NumOrderClients

\* new Queue("order-events") and new Worker("order-events", ...)
OrderQueueName == "order-events"
WorkerQueueNameTypo == "order-event"
WorkerQueueName == "order-events"

OrderRow(id) == [id |-> id, status |-> "PLACED"]
Job(id) == [name |-> "order.created", data |-> [orderId |-> id]]
NoJob == [name |-> "", data |-> [orderId |-> ""]]

IdleOrder == [pc |-> "idle", id |-> "", resp |-> [orderId |-> "", status |-> ""]]

InitOrder ==
    /\ orders = NoTable
    /\ orderNextId = 1
    /\ ord = [c \in OrderClients |-> IdleOrder]
    /\ queue = <<>>
    /\ active = NoJob
    /\ processed = <<>>
    /\ workerUp = FALSE

\* POST /orders, up to the first await: CREATE TABLE IF NOT EXISTS orders
OrderCreateTable(c, ok) ==
    /\ ord[c].pc \in {"idle", "done", "failed"}
    /\ orderNextId + Cardinality({d \in OrderClients : ord[d].pc = "created"})
          <= MaxOrders
    /\ IF ok
       THEN /\ orders' = CreateTableIfNotExists(orders)
            /\ ord' = [ord EXCEPT ![c] = [IdleOrder EXCEPT !.pc = "created"]]
       ELSE /\ orders' = orders
            /\ ord' = [ord EXCEPT ![c] = [IdleOrder EXCEPT !.pc = "failed"]]
    /\ UNCHANGED <<orderNextId, queue, active, processed, workerUp>>

\* OrderInsert going on to publish although the INSERT was rejected
OrderInsertSwallowsError(c, ok) ==
    /\ ord[c].pc = "created"
    /\ orderNextId' = orderNextId + 1
    /\ orders' = IF ok THEN InsertInto(orders, OrderRow(Uuid(orderNextId)))
                 ELSE orders
    /\ ord' = [ord EXCEPT ![c].pc = "inserted", ![c].id = Uuid(orderNextId)]
    /\ UNCHANGED <<queue, active, processed, workerUp>>

\* POST /orders: id = uuid(), INSERT INTO orders VALUES(id, "PLACED")
OrderInsert(c, ok) ==
    /\ ord[c].pc = "created"
    /\ orderNextId' = orderNextId + 1
    /\ IF ok
       THEN /\ orders' = InsertInto(orders, OrderRow(Uuid(orderNextId)))
            /\ ord' = [ord EXCEPT ![c].pc = "inserted", ![c].id = Uuid(orderNextId)]
       ELSE /\ orders' = orders
            /\ ord' = [ord EXCEPT ![c].pc = "failed", ![c].id = Uuid(orderNextId)]
    /\ UNCHANGED <<queue, active, processed, workerUp>>

\* OrderPublish going on to respond although the add was rejected
OrderPublishIgnoringFailure(c, ok) ==
    /\ ord[c].pc = "inserted"
    /\ queue' = IF ok THEN Append(queue, Job(ord[c].id)) ELSE queue
    /\ ord' = [ord EXCEPT ![c].pc = "published"]
    /\ UNCHANGED <<orders, orderNextId, active, processed, workerUp>>

\* POST /orders: orderQueue.add("order.created", { orderId: id })
OrderPublish(c, ok) ==
    /\ ord[c].pc = "inserted"
    /\ IF ok
       THEN /\ queue' = Append(queue, Job(ord[c].id))
            /\ ord' = [ord EXCEPT ![c].pc = "published"]
       ELSE /\ queue' = queue
            /\ ord' = [ord EXCEPT ![c].pc = "failed"]
    /\ UNCHANGED <<orders, orderNextId, active, processed, workerUp>>

\* POST /orders: res.json({ orderId: id, status: "PLACED" })
OrderRespond(c) ==
    /\ ord[c].pc = "published"
    /\ ord' = [ord EXCEPT ![c].pc = "done",
                          ![c].resp = [orderId |-> ord[c].id, status |-> "PLACED"]]
    /\ UNCHANGED <<orders, orderNextId, queue, active, processed, workerUp>>

\* the notification service starts: new Worker("order-events", ...)
WorkerStart ==
    /\ ~workerUp
    /\ workerUp' = TRUE
    /\ UNCHANGED <<orders, orderNextId, ord, queue, active, processed>>

\* the worker takes the next waiting job of the queue it listens on
WorkerFetch ==
    /\ workerUp
    /\ WorkerQueueName = OrderQueueName
    /\ active = NoJob
    /\ queue # <<>>
    /\ active' = Head(queue)
    /\ queue' = Tail(queue)
    /\ UNCHANGED <<orders, orderNextId, ord, processed, workerUp>>

\* the processor runs on the job (it logs job.name and job.data) and the job
\* completes
WorkerProcess ==
    /\ workerUp
    /\ active # NoJob
    /\ processed' = Append(processed, active)
    /\ active' = NoJob
    /\ UNCHANGED <<orders, orderNextId, ord, queue, workerUp>>

OrderOnly == UNCHANGED <<restVars, gwVars, pxVars, authVars>>

NextOrder ==
    \/ \E c \in OrderClients, ok \in BOOLEAN : OrderCreateTable(c, ok) /\ OrderOnly
    \/ \E c \in OrderClients, ok \in BOOLEAN : OrderInsert(c, ok) /\ OrderOnly
    \/ \E c \in OrderClients, ok \in BOOLEAN : OrderPublish(c, ok) /\ OrderOnly
    \/ \E c \in OrderClients : OrderRespond(c) /\ OrderOnly
    \/ WorkerStart /\ OrderOnly
    \/ WorkerFetch /\ OrderOnly
    \/ WorkerProcess /\ OrderOnly

----------------------------------------------------------------------------
(* Auth service: register and login                                        *)

MaxUsers == 2

Emails == {"a@x.io", "b@x.io"}
Undefined == "undefined"
\* req.body.password: a string, or missing from the body
Passwords == {"pw1", "pw2", Undefined}
Roles == {"ADMIN", Undefined}
Salts == {"salt1", "salt2"}
JwtSecret == "JWT_SECRET"

\* bcrypt: the hash carries its salt; comparing hashes the candidate with the
\* salt of the stored hash
BcryptHash(password, salt) == <<"$2a$08$", salt, password>>

BcryptCompare(password, hash) == BcryptHash(password, hash[2]) = hash

\* bcryptjs throws "Illegal arguments" when the password is not a string
BcryptThrows(password) == password = Undefined

JwtSign(payload, secret) == [payload |-> payload, signedWith |-> secret]
NoToken == [payload |-> [id |-> "", role |-> ""], signedWith |-> ""]

UserRow(id, email, hash, role) ==
    [id |-> id, email |-> email, password |-> hash, role |-> role]

\* SELECT * FROM users WHERE email=$1
SelectByEmail(rows, email) ==
    SelectSeq(rows, LAMBDA r : r.email = email)

IdleReg == [pc |-> "idle", email |-> "", hash |-> <<>>, role |-> ""]
IdleLogin == [pc |-> "idle", email |-> "", password |-> "", status |-> 0,
              token |-> NoToken]

\* initDB(retries = 10, delay = 3000)
Retries == 10
Delay == 3000

\* initDB has not run its first query yet
Booting == [pc |-> "connecting", retries |-> Retries, attempts |-> 0,
            slept |-> 0, code |-> 0]
\* the server listens on port 4001; initDB's frame is gone
Listening == [pc |-> "listening", retries |-> 0, attempts |-> 0,
              slept |-> 0, code |-> 0]

\* the service starts against a fresh database
InitAuth ==
    /\ boot = Booting
    /\ usersTable = FALSE
    /\ users = <<>>
    /\ authNextId = 1
    /\ reg = IdleReg
    /\ login = IdleLogin

\* an initDB that returns after the query whether or not it succeeded
InitDBQueryReturnsAnyway(ok) ==
    /\ boot.pc = "connecting"
    /\ boot.retries # 0
    /\ boot' = [boot EXCEPT !.pc = "returned", !.attempts = @ + 1]
    /\ usersTable' = (usersTable \/ ok)
    /\ UNCHANGED <<users, authNextId, reg, login>>

\* one turn of initDB's loop, up to its next await: CREATE TABLE IF NOT
\* EXISTS users; on success return, else count the retry down and either
\* process.exit(1) or start the timer
InitDBQuery(ok) ==
    /\ boot.pc = "connecting"
    /\ boot.retries # 0
    /\ IF ok
       THEN /\ usersTable' = TRUE
            /\ boot' = [boot EXCEPT !.pc = "returned", !.attempts = @ + 1]
       ELSE /\ UNCHANGED usersTable
            /\ IF boot.retries - 1 = 0
               THEN boot' = [boot EXCEPT !.pc = "exited", !.attempts = @ + 1,
                                         !.retries = 0, !.code = 1]
               ELSE boot' = [boot EXCEPT !.pc = "waiting", !.attempts = @ + 1,
                                         !.retries = @ - 1]
    /\ UNCHANGED <<users, authNextId, reg, login>>

\* an initDB whose delay grows with the attempts made
InitDBDelayBackoff ==
    /\ boot.pc = "waiting"
    /\ boot' = [boot EXCEPT !.pc = "connecting",
                            !.slept = @ + Delay * boot.attempts]
    /\ UNCHANGED <<usersTable, users, authNextId, reg, login>>

\* await new Promise(res => setTimeout(res, delay)), then the loop test
InitDBDelay ==
    /\ boot.pc = "waiting"
    /\ boot' = [boot EXCEPT !.pc = "connecting", !.slept = @ + Delay]
    /\ UNCHANGED <<usersTable, users, authNextId, reg, login>>

\* initDB().then(() => app.listen(4001))
Listen ==
    /\ boot.pc = "returned"
    /\ boot' = Listening
    /\ UNCHANGED <<usersTable, users, authNextId, reg, login>>

\* POST /auth/register, up to the INSERT: bcrypt.hash(password, 8)
RegisterHash(email, password, role, salt) ==
    /\ boot.pc = "listening"
    /\ reg.pc \in {"idle", "done", "failed"}
    /\ authNextId <= MaxUsers
    /\ IF BcryptThrows(password)
       THEN reg' = [IdleReg EXCEPT !.pc = "failed", !.email = email]
       ELSE reg' = [pc |-> "hashed", email |-> email,
                    hash |-> BcryptHash(password, salt),
                    role |-> IF role = Undefined THEN "USER" ELSE role]
    /\ UNCHANGED <<boot, usersTable, users, authNextId, login>>

\* POST /auth/register: INSERT INTO users; email is UNIQUE
RegisterInsert(ok) ==
    /\ reg.pc = "hashed"
    /\ IF ok /\ SelectByEmail(users, reg.email) = <<>>
       THEN /\ users' = Append(users, UserRow(Uuid(authNextId), reg.email,
                                              reg.hash, reg.role))
            /\ authNextId' = authNextId + 1
            /\ reg' = [reg EXCEPT !.pc = "done"]
       ELSE /\ UNCHANGED <<users, authNextId>>
            /\ reg' = [reg EXCEPT !.pc = "failed"]
    /\ UNCHANGED <<boot, usersTable, login>>

\* POST /auth/login arrives; the handler awaits the SELECT
LoginReceive(email, password) ==
    /\ boot.pc = "listening"
    /\ login.pc \in {"idle", "responded", "threw", "dbfailed"}
    /\ login' = [IdleLogin EXCEPT !.pc = "selecting", !.email = email,
                                  !.password = password]
    /\ UNCHANGED <<boot, usersTable, users, authNextId, reg>>

\* POST /auth/login from the SELECT's result on: 401 without a row, 401 when
\* compareSync is false, else the signed token; a rejected query or a throw
\* inside the async handler leaves the request without a response
LoginCheck(ok) ==
    /\ login.pc = "selecting"
    /\ LET rows == SelectByEmail(users, login.email)
       IN  IF ~ok
           THEN login' = [login EXCEPT !.pc = "dbfailed"]
           ELSE IF Len(rows) = 0
           THEN login' = [login EXCEPT !.pc = "responded", !.status = 401]
           ELSE IF BcryptThrows(login.password)
           THEN login' = [login EXCEPT !.pc = "threw"]
           ELSE IF ~BcryptCompare(login.password, rows[1].password)
           THEN login' = [login EXCEPT !.pc = "responded", !.status = 401]
           ELSE login' = [login EXCEPT !.pc = "responded", !.status = 200,
                            !.token = JwtSign([id |-> rows[1].id,
                                               role |-> rows[1].role], JwtSecret)]
    /\ UNCHANGED <<boot, usersTable, users, authNextId, reg>>

AuthOnly == UNCHANGED <<restVars, gwVars, pxVars, orderVars>>

NextAuth ==
    \/ \E ok \in BOOLEAN : InitDBQuery(ok) /\ AuthOnly
    \/ InitDBDelay /\ AuthOnly
    \/ Listen /\ AuthOnly
    \/ \E e \in Emails, p \in Passwords, r \in Roles, s \in Salts :
          RegisterHash(e, p, r, s) /\ AuthOnly
    \/ \E ok \in BOOLEAN : RegisterInsert(ok) /\ AuthOnly
    \/ \E e \in Emails, p \in Passwords : LoginReceive(e, p) /\ AuthOnly
    \/ \E ok \in BOOLEAN : LoginCheck(ok) /\ AuthOnly

----------------------------------------------------------------------------
(* Specifications: one per service, each leaving the others at rest        *)

Init ==
    /\ InitRestaurant
    /\ InitGateway
    /\ InitProxy
    /\ InitOrder
    /\ InitAuth

SpecRestaurant ==
    Init /\ [][NextRestaurant]_vars

SpecGateway ==
    Init /\ [][NextGateway]_vars

SpecProxy ==
    Init /\ [][NextProxy]_vars

SpecOrder ==
    Init /\ [][NextOrder]_vars

SpecAuth ==
    Init /\ [][NextAuth]_vars

\* a started worker keeps polling its queue and finishes the job it holds
SpecOrderLive ==
    /\ SpecOrder
    /\ WF_vars(WorkerFetch /\ OrderOnly)
    /\ WF_vars(WorkerProcess /\ OrderOnly)

----------------------------------------------------------------------------
(* Restaurant service: properties                                          *)

Cold(g) == get[g].pc \in {"miss", "loaded"}
Loaded(g) == get[g].pc = "loaded" \/ (get[g].pc = "done" /\ ~get[g].hit)

\* C1 as claimed: requests that run concurrently on a cold key share one
\* backing load (the SELECT runs once for all of them) and one result.
C1_SingleFlight ==
    \A g, h \in GetClients :
        (g # h /\ Cold(g) /\ Cold(h)) =>
            /\ get[g].selects + get[h].selects <= 1
            /\ (get[g].pc = "loaded" /\ get[h].pc = "loaded")
                   => get[g].rows = get[h].rows

\* C1 amended: every request that read the key while it was absent or expired
\* runs the SELECT itself, once, whatever the other requests in flight do, and
\* answers with the rows of its own SELECT; a request served from the cache
\* runs none.
C1_LoadPerMiss ==
    \A g \in GetClients :
        /\ get[g].pc = "miss" => get[g].selects = 0
        /\ Loaded(g) => get[g].selects = 1
        /\ get[g].pc = "failed" => get[g].selects = 1
        /\ (get[g].pc = "done" /\ get[g].hit) => get[g].selects = 0
        /\ (get[g].pc = "done" /\ ~get[g].hit) => get[g].resp = get[g].rows

\* two requests in flight on the cold key, both having run the SELECT, with
\* different results
C1_Witness ==
    \E g, h \in GetClients :
        /\ g # h
        /\ get[g].pc = "loaded" /\ get[h].pc = "loaded"
        /\ get[g].selects = 1 /\ get[h].selects = 1
        /\ get[g].rows # get[h].rows

\* C2: a request that reads the key while a live entry exists responds with
\* exactly the cached value, and runs no database query and no cache write.
C2_CacheHit ==
    /\ [][\A g \in GetClients :
            (GetRead(g) /\ Live(cache, now)) =>
                /\ get'[g].pc = "done"
                /\ JSONstringify(get'[g].resp) = cache.value
                /\ get'[g].selects = 0 /\ get'[g].writes = 0
                /\ cache' = cache /\ table' = table]_vars
    /\ [](\A g \in GetClients :
            (get[g].pc = "done" /\ get[g].hit) =>
                (get[g].selects = 0 /\ get[g].writes = 0))

C2_Witness ==
    \E g, h \in GetClients :
        /\ get[g].pc = "done" /\ get[g].hit /\ get[g].resp # <<>>
        /\ Live(cache, now) /\ JSONstringify(get[g].resp) = cache.value
        /\ get[h].pc = "done" /\ get[h].hit /\ get[h].resp = <<>>

\* C3: an entry is written with expiry t + 60 and is served only while
\* now < t + 60: a read before that is a hit without a load, a read from then
\* on is a miss that loads from the database and writes a fresh entry.
C3_TtlExpiry ==
    [][\A g \in GetClients :
        /\ GetSetEx(g) => (cache'.present /\ cache'.exp = now + 60)
        /\ GetRead(g) =>
              /\ get'[g].hit <=> (cache.present /\ now < cache.exp)
              /\ get'[g].hit => (get'[g].pc = "done" /\ get'[g].selects = 0)
              /\ ~get'[g].hit => get'[g].pc = "miss"
        /\ (get[g].pc = "miss" /\ get'[g].pc = "loaded") =>
              (get'[g].selects = 1 /\ get'[g].rows = table.rows)
        /\ (get[g].pc = "loaded" /\ get'[g] # get[g]) =>
              (get'[g].pc = "done" /\ cache'.exp = now + 60
               /\ cache'.value = JSONstringify(get[g].rows))]_vars

\* at t = 61: one request was served from the cache, another found the entry
\* expired, loaded from the database and has written the fresh entry
C3_Witness ==
    \E g, h \in GetClients :
        /\ now = 61
        /\ get[h].pc = "done" /\ get[h].hit
        /\ get[g].pc = "done" /\ ~get[g].hit /\ get[g].stale
        /\ get[g].selects = 1 /\ get[g].writes = 1
        /\ cache.present /\ cache.exp = 61 + 60

\* C4: a request whose SELECT fails writes no cache entry and leaves the key
\* as it was (absent stays absent), and a later request that finds the key
\* absent goes to the database again.
C4_FailureNotCached ==
    /\ [][\A g \in GetClients :
            /\ (get[g].pc = "miss" /\ get'[g].pc = "failed") => cache' = cache
            /\ (get[g].pc = "failed" /\ get'[g] # get[g]) =>
                  (GetRead(g) /\ cache' = cache)
            /\ (GetRead(g) /\ ~Live(cache, now)) =>
                  (get'[g].pc = "miss" /\ get'[g].selects = 0)]_vars
    /\ [](\A g \in GetClients :
            /\ get[g].pc = "failed" => (get[g].writes = 0 /\ get[g].resp = <<>>)
            /\ get[g].pc = "miss" => ENABLED GetSelect(g, TRUE))

\* a failed load, the key still absent, and the next request querying again
C4_Witness ==
    \E g, h \in GetClients :
        /\ get[g].pc = "failed" /\ ~cache.present
        /\ get[h].pc = "loaded" /\ get[h].selects = 1

\* C5 as claimed: a GET that starts once a POST has responded answers with the
\* restaurant that POST created (on a hit, the answer given at once; on a
\* miss, the rows selected).
C5_ListsAllCreated ==
    [][\A g \in GetClients :
        /\ (GetRead(g) /\ get'[g].pc = "done") =>
              responded \subseteq RowIds(get'[g].resp)
        /\ (get[g].pc = "miss" /\ get'[g].pc = "loaded") =>
              responded \subseteq RowIds(get'[g].rows)
        /\ GetSetEx(g) => get'[g].resp = get[g].rows]_vars

\* C5 amended: a GET that misses the cache answers with every restaurant whose
\* POST had responded when its SELECT ran (so when the GET started); a GET
\* served from the cache answers with the list as cached, which a restaurant
\* created since is not in.
C5_ListsAllOnMiss ==
    [][\A g \in GetClients :
        /\ (get[g].pc = "miss" /\ get'[g].pc = "loaded") =>
              responded \subseteq RowIds(get'[g].rows)
        /\ GetSetEx(g) => get'[g].resp = get[g].rows
        /\ (GetRead(g) /\ get'[g].pc = "done") =>
              JSONstringify(get'[g].resp) = cache.value]_vars

\* a POST has responded, one request is served the older cached list and
\* another, having missed, answers with the new restaurant
C5_Witness ==
    \E g, h \in GetClients :
        /\ responded # {}
        /\ get[g].pc = "done" /\ get[g].hit
        /\ ~(responded \subseteq RowIds(get[g].resp))
        /\ get[h].pc = "done" /\ ~get[h].hit
        /\ responded \subseteq RowIds(get[h].resp)

----------------------------------------------------------------------------
(* Restaurant service under interleaving: properties                       *)

IsPrefix(a, b) == Len(a) <= Len(b) /\ \A i \in 1..Len(a) : a[i] = b[i]

\* C16 as stated: every value stored under the key "restaurants" equals the
\* contents of the restaurants table at the moment the entry is written.
C16_CachedIsCurrent ==
    [][\A g \in GetClients :
          GetSetEx(g) => JSONparse(cache'.value) = SelectAll(table)]_vars

\* C16 (amended): every value stored under the key "restaurants" equals the
\* contents of the restaurants table at the moment of the SELECT of the
\* request that writes it, which is also what that request answers; a POST
\* that inserts between the SELECT and the SETEX is missing from the entry.
\* The entry is written with an expiry of 60 s, only by such a request, and
\* always equals an earlier state of the table.
C16_CachedIsSelected ==
    /\ [][/\ \A g \in GetClients :
               /\ (get[g].pc = "miss" /\ get'[g].pc = "loaded") =>
                      get'[g].rows = SelectAll(table)
               /\ (get[g].pc = "loaded" /\ get'[g] # get[g]) => GetSetEx(g)
               /\ GetSetEx(g) =>
                      /\ JSONparse(cache'.value) = get[g].rows
                      /\ get'[g].resp = get[g].rows
                      /\ cache'.exp = now + 60
          /\ cache' # cache => \E g \in GetClients : GetSetEx(g)]_vars
    /\ [](cache.present => IsPrefix(JSONparse(cache.value), SelectAll(table)))

\* an entry written in this second by a request that answered the same
\* rows, while the table holds a restaurant the entry lacks
C16_Witness ==
    \E g \in GetClients :
        /\ get[g].pc = "done" /\ ~get[g].hit /\ get[g].writes = 1
        /\ cache.present /\ cache.exp = now + TTL
        /\ JSONparse(cache.value) = get[g].resp
        /\ Len(SelectAll(table)) > Len(get[g].resp)

----------------------------------------------------------------------------
(* API gateway: properties                                                 *)

GwHandled == gw.stage \in {"proxied", "responded"}

\* C6 as claimed: every request whose path is under /auth, /restaurants,
\* /orders or /payments is forwarded to auth-service:4001,
\* restaurant-service:4002, order-service:4003 or payment-service:4004 and to
\* no other upstream, the longest matching prefix deciding, and the route
\* table is the one registered at start-up.
C6_StaticRouting ==
    LET claimed == [auth |-> "auth-service:4001",
                    restaurants |-> "restaurant-service:4002",
                    orders |-> "order-service:4003",
                    payments |-> "payment-service:4004"]
        longest == {i \in Matching(routes, gw.path) :
                       \A j \in Matching(routes, gw.path) :
                           Len(routes[i].prefix) >= Len(routes[j].prefix)}
    IN  /\ Len(routes) = 4
        /\ \A i \in 1..Len(routes) :
              Len(routes[i].prefix) = 1 /\ routes[i].prefix[1] \in DOMAIN claimed
              /\ routes[i].target = claimed[routes[i].prefix[1]]
        /\ (GwHandled /\ gw.path # <<>> /\ gw.path[1] \in DOMAIN claimed) =>
              gw.sentTo = {claimed[gw.path[1]]}
        /\ GwHandled => gw.sentTo \subseteq {routes[i].target : i \in longest}

\* C6 amended: a request under one of the four prefixes that express.json()
\* lets through is forwarded to the claimed upstream and to no other; one whose
\* body express.json() rejects is answered 400 or 413 and forwarded nowhere;
\* whatever is forwarded goes to the longest matching prefix's target (at most
\* one prefix matches); the route table never changes.
C6_RoutingPastParser ==
    LET claimed == [auth |-> "auth-service:4001",
                    restaurants |-> "restaurant-service:4002",
                    orders |-> "order-service:4003",
                    payments |-> "payment-service:4004"]
        longest == {i \in Matching(routes, gw.path) :
                       \A j \in Matching(routes, gw.path) :
                           Len(routes[i].prefix) >= Len(routes[j].prefix)}
        rejected == gw.body \in {"malformed", "oversize"}
    IN  /\ Len(routes) = 4
        /\ \A i \in 1..Len(routes) :
              Len(routes[i].prefix) = 1 /\ routes[i].prefix[1] \in DOMAIN claimed
              /\ routes[i].target = claimed[routes[i].prefix[1]]
        /\ (GwHandled /\ gw.path # <<>> /\ gw.path[1] \in DOMAIN claimed) =>
              IF rejected
              THEN gw.sentTo = {} /\ gw.status = (IF gw.body = "malformed" THEN 400 ELSE 413)
              ELSE gw.sentTo = {claimed[gw.path[1]]}
        /\ gw.sentTo \subseteq {routes[i].target : i \in longest}
        /\ Cardinality(Matching(routes, gw.path)) <= 1

\* POST /orders/register with a JSON body, handed to order-service:4003
C6_Witness ==
    /\ gw.stage = "proxied"
    /\ gw.path = <<"orders", "register">>
    /\ gw.body = "json"
    /\ gw.sentTo = {"order-service:4003"}

\* C7 as claimed: a request whose path matches no registered prefix gets a
\* not-found response and is forwarded to no upstream.
C7_NoRoute ==
    Matching(routes, gw.path) = {} =>
        /\ gw.sentTo = {}
        /\ gw.stage # "proxied"
        /\ gw.stage = "responded" => gw.status = 404

\* C7 amended: a request whose path matches no registered prefix is forwarded
\* to no upstream, and is answered 404, unless express.json() has rejected its
\* body, in which case it is answered 400 (malformed) or 413 (too large).
C7_NoRouteNoForward ==
    Matching(routes, gw.path) = {} =>
        /\ gw.sentTo = {}
        /\ gw.stage # "proxied"
        /\ gw.stage = "responded" =>
              gw.status = CASE gw.body = "malformed" -> 400
                            [] gw.body = "oversize" -> 413
                            [] OTHER -> 404

\* /authx is not under /auth: answered 404, forwarded nowhere
C7_Witness ==
    /\ gw.stage = "responded"
    /\ gw.path = <<"authx">>
    /\ gw.body = "json"
    /\ gw.status = 404
    /\ gw.sentTo = {}

----------------------------------------------------------------------------
(* API gateway under concurrent requests: properties                       *)

Forwarded(c) == px[c].pc \in {"forwarding", "done"} /\ px[c].attempts = 1

\* C11 as stated: a request for an upstream that arrives after five forwards
\* to it failed in a row, less than 30 s after the latest failure, is
\* answered CircuitOpen (503) and no connection to the upstream is opened.
C11_BreakerOpens ==
    \A c \in ProxyClients :
        px[c].seen = "open" => px[c].attempts = 0 /\ px[c].status = 503

\* C11 (amended): the gateway keeps no breaker. A request for an upstream
\* that arrives after five or more forwards to it failed in a row, less than
\* 30 s after the latest failure, is forwarded to the upstream like any
\* other, and is answered with the upstream's response or the proxy's error
\* response, never with CircuitOpen.
C11_ForwardedAfterFailures ==
    \A c \in ProxyClients :
        px[c].seen = "open" =>
            /\ Forwarded(c)
            /\ px[c].sentTo \in Targets
            /\ px[c].status \in {0, 200, 504}

\* a request that arrived within the cool-down after five failures in a
\* row, and was served by the upstream
C11_Witness ==
    \E c \in ProxyClients :
        /\ px[c].seen = "open"
        /\ px[c].pc = "done"
        /\ px[c].status = 200
        /\ px[c].attempts = 1

\* C12 as stated: of the requests for an upstream that arrive 30 s or more
\* after the latest of five failures in a row, one is let through as the
\* trial, and while it is in flight none of the others is forwarded.
C12_SingleTrial ==
    \A c, d \in ProxyClients :
        (/\ c # d
         /\ px[c].seen = "cooled" /\ px[c].pc = "forwarding"
         /\ px[d].seen = "cooled" /\ px[d].sentTo = px[c].sentTo)
        => px[d].pc # "forwarding"

\* C12 (amended): the gateway has no HalfOpen state. Every request for an
\* upstream that arrives 30 s or more after the latest of five or more
\* failures in a row is forwarded, also while another such request to the
\* same upstream is in flight, and none is answered CircuitOpen.
C12_NoTrialGate ==
    \A c \in ProxyClients :
        px[c].seen = "cooled" =>
            /\ Forwarded(c)
            /\ px[c].sentTo \in Targets
            /\ px[c].status \in {0, 200, 504}

\* two requests that both arrived after the cool-down, in flight to the same
\* upstream at once
C12_Witness ==
    \E c, d \in ProxyClients :
        /\ c # d
        /\ px[c].seen = "cooled" /\ px[c].pc = "forwarding"
        /\ px[d].seen = "cooled" /\ px[d].pc = "forwarding"
        /\ px[d].sentTo = px[c].sentTo

\* C13 as stated: a request whose forward failed is forwarded a second time
\* before the failure is surfaced.
C13_RetriesNextCandidate ==
    \A c \in ProxyClients :
        (px[c].pc = "done" /\ px[c].status = 504) => px[c].attempts = 2

\* C13 (amended): the gateway does not retry. Each request matching a route
\* is forwarded exactly once, to the route's only target; when that forward
\* fails by transport error or timeout the client is answered with the
\* proxy's error response.
C13_SingleAttempt ==
    \A c \in ProxyClients :
        /\ px[c].attempts <= 1
        /\ (px[c].pc = "done" /\ px[c].sentTo # NoTarget)
           => px[c].attempts = 1 /\ px[c].status \in {200, 504}
        /\ px[c].status = 504 => px[c].pc = "done"

\* a request answered with the error response after its only forward failed
C13_Witness ==
    \E c \in ProxyClients :
        /\ px[c].pc = "done"
        /\ px[c].status = 504
        /\ px[c].attempts = 1

----------------------------------------------------------------------------
(* Order service and worker: properties                                    *)

JobsEver == queue \o (IF active = NoJob THEN <<>> ELSE <<active>>) \o processed
Count(seq, x) == Cardinality({i \in DOMAIN seq : seq[i] = x})
OrderIds == {Uuid(n) : n \in 1..(MaxOrders + 1)}

\* C8: a POST /orders that has responded {orderId, status: "PLACED"} has
\* inserted one row (orderId, "PLACED") and added exactly one "order.created"
\* job with that orderId; the row is inserted before the job is added, and the
\* job is added before the response.
C8_OrderPublishesEvent ==
    /\ [](\A c \in OrderClients :
            ord[c].pc = "done" =>
                /\ ord[c].resp.status = "PLACED"
                /\ Count(orders.rows, [id |-> ord[c].resp.orderId, status |-> "PLACED"]) = 1
                /\ Count(JobsEver, [name |-> "order.created",
                                    data |-> [orderId |-> ord[c].resp.orderId]]) = 1)
    /\ [][\A c \in OrderClients :
            /\ (ord[c].pc # "done" /\ ord'[c].pc = "done") =>
                  Count(JobsEver, Job(ord'[c].resp.orderId)) = 1
            /\ (Len(queue') > Len(queue)) =>
                  \A i \in (Len(queue) + 1)..Len(queue') :
                      Count(orders.rows, OrderRow(queue'[i].data.orderId)) = 1]_vars

\* two orders placed and answered, their jobs in the queue
C8_Witness ==
    \E c, d \in OrderClients :
        /\ c # d
        /\ ord[c].pc = "done" /\ ord[d].pc = "done"
        /\ ord[c].resp.orderId # ord[d].resp.orderId
        /\ Len(queue) = 2

\* C9: a job added while the worker is not running stays in the queue (no job
\* ever leaves the system unprocessed), and once the worker is running every
\* job in the queue is eventually processed.
C9_QueuedEventsConsumed ==
    /\ [][~workerUp' => (Len(queue') >= Len(queue)
                         /\ SubSeq(queue', 1, Len(queue)) = queue)]_vars
    /\ [][\A id \in OrderIds :
            Count(JobsEver, Job(id)) >= 1 => Count(JobsEver', Job(id)) >= 1]_vars
    /\ \A id \in OrderIds :
          ((workerUp /\ Count(queue, Job(id)) >= 1) ~> (Count(processed, Job(id)) >= 1))

\* the worker is running, two jobs went through the queue and both have been
\* processed
C9_Witness ==
    /\ workerUp
    /\ Len(processed) = 2
    /\ processed[1] # processed[2]
    /\ queue = <<>>
    /\ active = NoJob

----------------------------------------------------------------------------
(* Auth service: properties                                                *)

\* the step in which the login handler runs on the result of its SELECT
LoginDecided == login.pc = "selecting" /\ login'.pc \in {"responded", "threw"}

\* the password given is the one the stored hash was made from
Matching10 ==
    LET rows == SelectByEmail(users, login.email)
    IN  rows # <<>> /\ rows[1].password[3] = login.password

\* C10 as claimed: login responds 401 when no user row has the email or the
\* password does not match the stored hash, responds with a token signed over
\* that user's id and role only when a row exists and the password matches,
\* and never modifies the users table.
C10_LoginOnlyMatching ==
    [][/\ LoginDecided =>
            /\ ~Matching10 => (login'.pc = "responded" /\ login'.status = 401
                               /\ login'.token = NoToken)
            /\ login'.token # NoToken =>
                  /\ Matching10
                  /\ LET row == SelectByEmail(users, login.email)[1]
                     IN  login'.token.payload = [id |-> row.id, role |-> row.role]
       /\ login' # login => users' = users]_vars

\* C10, the part the code keeps: no token without a matching credential, the
\* token is signed over the matching row's id and role, a string password that
\* does not match and an unknown email get 401, and login leaves users alone.
C10_TokenOnlyOnMatch ==
    [][/\ LoginDecided =>
            /\ login'.token # NoToken =>
                  /\ Matching10 /\ login'.status = 200
                  /\ LET row == SelectByEmail(users, login.email)[1]
                     IN  login'.token.payload = [id |-> row.id, role |-> row.role]
            /\ (~Matching10 /\ login.password # Undefined) =>
                  (login'.pc = "responded" /\ login'.status = 401)
            /\ SelectByEmail(users, login.email) = <<>> =>
                  (login'.pc = "responded" /\ login'.status = 401)
            /\ login'.pc = "threw" =>
                  (login.password = Undefined
                   /\ SelectByEmail(users, login.email) # <<>>)
       /\ login' # login => users' = users]_vars

----------------------------------------------------------------------------
(* Auth service start-up: properties                                       *)

\* C14: the auth service listens on port 4001 only after a CREATE TABLE IF
\* NOT EXISTS users query has succeeded: whenever initDB has returned, the
\* server listens or a register or login request is being or has been
\* handled, the users table exists; and the server starts to listen only
\* from an initDB that returned.
C14_ListenAfterTable ==
    /\ boot.pc \in {"returned", "listening"} => usersTable
    /\ (reg.pc # "idle" \/ login.pc # "idle") =>
           boot.pc = "listening" /\ usersTable
    /\ boot.pc = "returned" => boot.attempts >= 1

\* the server listens, the users table exists, and a login of a registered
\* user has been answered
C14_Witness ==
    /\ boot.pc = "listening"
    /\ usersTable
    /\ login.pc = "responded"
    /\ Len(users) > 0

\* C15: initDB makes at most 10 attempts; it sleeps the same delay after
\* each failed attempt but the 10th; it returns at the first attempt that
\* succeeds; after the 10th failure the process has exited with code 1,
\* without another delay and without listening.
C15_BoundedRetry ==
    /\ boot.attempts <= 10
    /\ boot.retries + boot.attempts = 10 \/ boot.pc \in {"returned", "listening"}
    /\ boot.pc = "connecting" => boot.slept = Delay * boot.attempts
    /\ boot.pc \in {"waiting", "returned", "exited"} =>
           boot.slept = Delay * (boot.attempts - 1)
    /\ boot.pc = "exited" <=> boot.code = 1
    /\ boot.pc = "exited" =>
           /\ boot.attempts = 10
           /\ reg.pc = "idle" /\ login.pc = "idle"
    /\ (boot.attempts = 10 /\ boot.pc # "returned") => boot.pc = "exited"

\* ten attempts failed and the process exited with code 1
C15_Witness ==
    /\ boot.pc = "exited"
    /\ boot.code = 1
    /\ boot.attempts = 10
    /\ boot.slept = 9 * Delay
    /\ ~usersTable

----------------------------------------------------------------------------
(* Order events against the orders table: properties                       *)

\* the jobs waiting in the queue or held by the worker
JobsPending == queue \o (IF active = NoJob THEN <<>> ELSE <<active>>)

\* C17: every "order.created" job that waits in the order-events queue or is
\* being processed by the worker carries the orderId of a row with status
\* "PLACED" that is already in the orders table; no row is ever removed or
\* changed, and no step of the worker changes the orders table.
C17_EventImpliesRow ==
    /\ [](\A i \in 1..Len(JobsPending) :
            /\ JobsPending[i].name = "order.created"
            /\ \E k \in 1..Len(orders.rows) :
                  /\ orders.rows[k].id = JobsPending[i].data.orderId
                  /\ orders.rows[k].status = "PLACED")
    /\ [][/\ IsPrefix(orders.rows, orders'.rows)
          /\ (active' # active \/ processed' # processed \/ workerUp' # workerUp)
                => orders' = orders]_vars

\* the worker holds the job of one order while the job of another waits
C17_Witness ==
    /\ workerUp
    /\ active # NoJob
    /\ Len(queue) = 1
    /\ queue[1] # active
    /\ Len(orders.rows) = 2

----------------------------------------------------------------------------
(* Requests the running services leave unanswered or alter: properties     *)

\* C18: every GET /restaurants request is answered with a list; none ends
\* without a response, also when the restaurants table has not been created
\* yet and the cache is cold.
C18_GetAlwaysAnswers ==
    \A g \in GetClients : get[g].pc # "failed"

\* C19: for every request the gateway has forwarded, the upstream received
\* the full path the client sent, prefix included, and the JSON body the
\* client sent; a response relayed from the upstream answers such a request.
C19_ForwardsIntact ==
    (gw.stage \in {"proxied", "responded"} /\ gw.sentTo # {}) =>
        /\ gw.upPath = gw.path
        /\ gw.upBody = gw.body

====
